---- MODULE Spec2Model ----
(***************************************************************************)
(* A model of monty's random number support: the integer-to-real           *)
(* conversion (random/utils.hpp), the gamma, cauchy and Box-Muller normal  *)
(* samplers (random/gamma.hpp, cauchy.hpp, normal_box_muller.hpp) and the  *)
(* R-facing rng pointer cache (r/random.hpp).                              *)
(*                                                                         *)
(* Unsigned integers of the program are sequences of bits, least           *)
(* significant bit first, of the width of the C++ type, so that shifts,    *)
(* wrap-around and byte layout are the program's.                          *)
(***************************************************************************)
EXTENDS Integers, Sequences, FiniteSets, TLC

\* the conversion check: the integer converted and the conversion made
VARIABLES xin, conv
\* the sampler check: the build, the generator state, the call made and, while
\* the call waits at SYNCWARP, the other threads of the warp yet to arrive
VARIABLES target, rng, call, warp

\* the seed check: the state type, the raw vector and the result of raw_seed
VARIABLES seed_type, seed_raw, seed_out
\* the rng pointer object: whether it exists, its environment (algorithm,
\* ptr_, state_, is_current_), the generator pointer a caller holds ("no":
\* none, "fresh": returned by rng_pointer_get and no rng_pointer_sync since,
\* "kept": kept across an rng_pointer_sync), the draws made on each stream,
\* the draws made through a kept pointer, whether ptr_ is a generator that
\* rng_pointer_get built from state_ and state_ has not been written since,
\* and the last call
VARIABLES created, env, held, drawn, kept_draws, restored, last

varsReal == <<xin, conv>>
varsSampler == <<target, rng, call, warp>>
varsSeed == <<seed_type, seed_raw, seed_out>>
varsPtr == <<created, env, held, drawn, kept_draws, restored, last>>
vars == <<varsReal, varsSampler, varsSeed, varsPtr>>

\* the values of the variables of a check that is not running
IdleReal == xin = <<>> /\ conv = [case |-> "none"]
IdleSampler == target = "host" /\ rng = <<>> /\ call = [op |-> "none"] /\ warp = 0
IdleSeed == seed_type = "none" /\ seed_raw = <<>> /\ seed_out = [op |-> "none"]
IdlePtr == /\ created = FALSE /\ env = <<>> /\ held = "no" /\ drawn = <<>> /\ kept_draws = 0
           /\ restored = FALSE /\ last = [op |-> "none"]

----------------------------------------------------------------------------
(* Fixed-width unsigned integers.                                          *)

\* a function on 1..n as the sequence of its values
AsSeq(f) == f \o <<>>

Pow2(n) == IF n = 0 THEN 1 ELSE LET p[i \in 0..n] == IF i = 0 THEN 1 ELSE 2 * p[i - 1] IN p[n]

\* the w-bit unsigned integer of value n (n < 2^31)
ToBits(n, w) == AsSeq([i \in 1..w |-> IF i > 31 THEN 0 ELSE (n \div Pow2(i - 1)) % 2])

\* the value of a bit sequence short enough to fit an integer of the checker
RECURSIVE BitsVal(_)
BitsVal(b) == IF b = <<>> THEN 0 ELSE b[1] + 2 * BitsVal(Tail(b))

Zero(w) == AsSeq([i \in 1..w |-> 0])

IsZero(b) == \A i \in 1..Len(b) : b[i] = 0

\* x ^ y
Xor(a, b) == AsSeq([i \in 1..Len(a) |-> (a[i] + b[i]) % 2])

\* x << k on a fixed width
Shl(a, k) == AsSeq([i \in 1..Len(a) |-> IF i > k THEN a[i - k] ELSE 0])

\* x >> k on a fixed width
Shr(a, k) == AsSeq([i \in 1..Len(a) |-> IF i + k <= Len(a) THEN a[i + k] ELSE 0])

Or(a, b) == AsSeq([i \in 1..Len(a) |-> IF a[i] + b[i] > 0 THEN 1 ELSE 0])

rotl(x, k) == Or(Shl(x, k), Shr(x, Len(x) - k))

And(a, b) == AsSeq([i \in 1..Len(a) |-> a[i] * b[i]])

\* one round of carry look-ahead over distance d: gp is the pair of the
\* generate and propagate bits
CarryRound(gp, d) == <<Or(gp[1], And(gp[2], Shl(gp[1], d))), And(gp[2], Shl(gp[2], d))>>

\* x + y modulo 2^width (widths up to 64)
Add(a, b) ==
  LET r1 == CarryRound(<<And(a, b), Xor(a, b)>>, 1)
      r2 == CarryRound(r1, 2)
      r3 == CarryRound(r2, 4)
      r4 == CarryRound(r3, 8)
      r5 == CarryRound(r4, 16)
      r6 == CarryRound(r5, 32)
  IN Xor(Xor(a, b), Shl(r6[1], 1))

\* the shift-and-add loop of a product; the test of Len(acc) has the
\* accumulator evaluated at every step
RECURSIVE MulAcc(_, _, _, _)
MulAcc(a, b, i, acc) ==
  IF i > Len(b) \/ Len(acc) = 0 THEN acc
  ELSE MulAcc(a, b, i + 1, IF b[i] = 1 THEN Add(acc, Shl(a, i - 1)) ELSE acc)

\* x * y modulo 2^width
Mul(a, b) == MulAcc(a, b, 1, Zero(Len(a)))

\* a hexadecimal literal, most significant digit first
RECURSIVE HexBits(_)
HexBits(h) == IF h = <<>> THEN <<>> ELSE HexBits(Tail(h)) \o ToBits(h[1], 4)

\* the unsigned integer made of 16-bit limbs, least significant limb first
RECURSIVE FromLimbs(_)
FromLimbs(l) == IF l = <<>> THEN <<>> ELSE ToBits(l[1], 16) \o FromLimbs(Tail(l))

\* (uint32_t) x: the low 32 bits
Lo32(x) == SubSeq(x, 1, 32)

\* (uint32_t)(x >> 32)
Hi32(x) == SubSeq(x, 33, 64)

----------------------------------------------------------------------------
(* IEEE-754 binary arithmetic, as far as int_to_real uses it.  A positive  *)
(* real is the pair of a numerator (bits, least significant first) and a   *)
(* binary exponent e: the value is numerator / 2^e.                        *)

\* significant bits of a floating point type
MantissaBits(real_type) == IF real_type = "double" THEN 53 ELSE 24

\* index of the most significant set bit, 0 for zero
RECURSIVE TopBit(_)
TopBit(b) == IF b = <<>> THEN 0 ELSE IF b[Len(b)] = 1 THEN Len(b) ELSE TopBit(SubSeq(b, 1, Len(b) - 1))

\* round to nearest, ties to even, on p significant bits
RoundNearestEven(n, p) ==
  LET L == TopBit(n) IN
  IF L <= p THEN n
  ELSE LET d == L - p
           q == AsSeq([i \in 1..(p + 1) |-> IF i <= p THEN n[i + d] ELSE 0])
           guard == n[d]
           sticky == \E i \in 1..(d - 1) : n[i] = 1
           up == guard = 1 /\ (sticky \/ q[1] = 1)
           r == IF up THEN Add(q, ToBits(1, p + 1)) ELSE q
       IN AsSeq([i \in 1..(d + p + 1) |-> IF i <= d THEN 0 ELSE r[i - d]])

\* the conversion of an unsigned integer to a floating point type
IntToFloating(x, p) == RoundNearestEven(x, p)

\* x * 2^-s + 2^-s / 2 in arithmetic of p significant bits; x is already a
\* value of the floating type, the product by a power of two is exact and
\* the sum is rounded
ScaleAddHalf(x, s, p) == [num |-> RoundNearestEven(<<1>> \o x, p), e |-> s + 1]

\* r > 0.0
RealGtZero(r) == ~IsZero(r.num)

\* r < 1.0
RealLtOne(r) == \A i \in 1..Len(r.num) : i > r.e => r.num[i] = 0

\* r == 1.0
RealIsOne(r) == TopBit(r.num) = r.e + 1 /\ \A i \in 1..r.e : r.num[i] = 0

\* r <= 2^-k
RealLePow2Inv(r, k) ==
  LET t == r.e - k + 1
  IN /\ TopBit(r.num) <= t
     /\ TopBit(r.num) = t => \A i \in 1..(t - 1) : r.num[i] = 0

\* int_to_real<double>(uint64_t)
int_to_real_double_u64(x) ==
  ScaleAddHalf(IntToFloating(SubSeq(Shr(x, 11), 1, 53), MantissaBits("double")), 53, MantissaBits("double"))

\* int_to_real<double>(uint32_t)
int_to_real_double_u32(x) ==
  ScaleAddHalf(IntToFloating(x, MantissaBits("double")), 32, MantissaBits("double"))

\* int_to_real<float>(uint32_t)
int_to_real_float_u32(x) ==
  ScaleAddHalf(IntToFloating(x, MantissaBits("float")), 32, MantissaBits("float"))

\* int_to_real<float>(uint64_t)
int_to_real_float_u64(x) == int_to_real_float_u32(Hi32(x))

int_to_real(real_type, x) ==
  IF real_type = "double"
  THEN IF Len(x) = 64 THEN int_to_real_double_u64(x) ELSE int_to_real_double_u32(x)
  ELSE IF Len(x) = 64 THEN int_to_real_float_u64(x) ELSE int_to_real_float_u32(x)

----------------------------------------------------------------------------
\* 16-bit limbs the conversion inputs are made of: the ends of the range
\* and the values next to the rounding thresholds of both real types
InputLimbs == {0, 1, 2047, 2048, 65407, 65408, 65535}

Inputs64 == {FromLimbs(<<a, b, c, d>>) : a \in {0, 63488, 65535}, b \in {0, 65535}, c \in InputLimbs, d \in InputLimbs}

InitReal ==
  /\ xin \in Inputs64
  /\ conv = [case |-> "none"]
  /\ IdleSampler /\ IdleSeed /\ IdlePtr

Convert(case, real_type, x) ==
  /\ conv.case = "none"
  /\ conv' = [case |-> case, x |-> x, value |-> int_to_real(real_type, x)]
  /\ UNCHANGED <<xin, varsSampler, varsSeed, varsPtr>>

U64ToDouble == Convert("u64_double", "double", xin)
U32ToDouble == Convert("u32_double", "double", Lo32(xin))
U64ToFloat == Convert("u64_float", "float", xin)
U32ToFloat == Convert("u32_float", "float", Lo32(xin))

NextReal == U64ToDouble \/ U32ToDouble \/ U64ToFloat \/ U32ToFloat

SpecReal == InitReal /\ [][NextReal]_vars

\* C9: for each of the four int_to_real cases and every value of the source
\* integer type the converted real lies strictly between 0.0 and 1.0.
C9_OpenInterval ==
  conv.case # "none" => RealGtZero(conv.value) /\ RealLtOne(conv.value)

----------------------------------------------------------------------------
(* Generator state types.  A type is xoshiro_state<T, N, X>: the width of  *)
(* its integers, their number and the scrambler.                           *)

StateType(bits, n, x) == [int_bits |-> bits, size |-> n, scrambler |-> x]

xoshiro128plus == StateType(32, 4, "plus")
xoroshiro128plus == StateType(64, 2, "plus")
xoshiro256plus == StateType(64, 4, "plus")

\* sizeof(int_type)
SizeofInt(T) == T.int_bits \div 8

\* algorithm_name<T>(): the empty string for a type that is none of the twelve
algorithm_name(T) ==
  IF T.scrambler \notin {"plus", "plusplus", "starstar"} THEN ""
  ELSE IF T.int_bits = 32 /\ T.size = 4 THEN "xoshiro128" \o T.scrambler
  ELSE IF T.int_bits = 64 /\ T.size = 2 THEN "xoroshiro128" \o T.scrambler
  ELSE IF T.int_bits = 64 /\ T.size = 4 THEN "xoshiro256" \o T.scrambler
  ELSE IF T.int_bits = 64 /\ T.size = 8 THEN "xoshiro512" \o T.scrambler
  ELSE ""

\* splitmix64(seed)
splitmix64(seed) ==
  LET z0 == Add(seed, HexBits(<<9,14,3,7,7,9,11,9,7,15,4,10,7,12,1,5>>))
      z1 == Mul(Xor(z0, Shr(z0, 30)), HexBits(<<11,15,5,8,4,7,6,13,1,12,14,4,14,5,11,9>>))
      z2 == Mul(Xor(z1, Shr(z1, 27)), HexBits(<<9,4,13,0,4,9,11,11,1,3,3,1,1,1,14,11>>))
  IN Xor(z2, Shr(z2, 31))

\* seed_data<T>(seed): size() integers from successive splitmix64 values, a
\* 64-bit value giving two integers of a 32-bit type, low half first
RECURSIVE seed_words(_, _, _)
seed_words(T, seed, n) ==
  IF n <= 0 \/ Len(seed) = 0 THEN <<>>
  ELSE LET v == splitmix64(seed)
       IN IF T.int_bits = 64 THEN <<v>> \o seed_words(T, v, n - 1)
          ELSE <<Lo32(v), Hi32(v)>> \o seed_words(T, v, n - 2)

seed_data(T, seed) == seed_words(T, seed, T.size)

\* next(state) of the three plus generators: the state afterwards
next_state(T, s) ==
  IF T.size = 2
  THEN LET s1 == Xor(s[2], s[1])
       IN <<Xor(Xor(rotl(s[1], 24), s1), Shl(s1, 16)), rotl(s1, 37)>>
  ELSE LET t == Shl(s[2], IF T.int_bits = 32 THEN 9 ELSE 17)
           s2 == Xor(s[3], s[1])
           s3 == Xor(s[4], s[2])
           s1 == Xor(s[2], s2)
           s0 == Xor(s[1], s3)
       IN <<s0, s1, Xor(s2, t), rotl(s3, IF T.int_bits = 32 THEN 11 ELSE 45)>>

\* next(state) of the three plus generators: the integer returned
next_value(T, s) == IF T.size = 2 THEN Add(s[1], s[2]) ELSE Add(s[1], s[4])

jump_constants(T) ==
  IF T.size = 2 THEN <<HexBits(<<13,15,9,0,0,2,9,4,13,8,15,5,5,4,10,5>>),
                       HexBits(<<1,7,0,8,6,5,13,15,4,11,3,2,0,1,15,12>>)>>
  ELSE IF T.int_bits = 32 THEN <<HexBits(<<8,7,6,4,0,0,0,11>>), HexBits(<<15,5,4,2,13,2,13,3>>),
                                 HexBits(<<6,15,10,0,3,5,12,3>>), HexBits(<<7,7,15,2,13,11,5,11>>)>>
  ELSE <<HexBits(<<1,8,0,14,12,6,13,3,3,12,15,13,0,10,11,10>>), HexBits(<<13,5,10,6,1,2,6,6,15,0,12,9,3,9,2,12>>),
         HexBits(<<10,9,5,8,2,6,1,8,14,0,3,15,12,9,10,10>>), HexBits(<<3,9,10,11,13,12,4,5,2,9,11,1,6,6,1,12>>)>>

long_jump_constants(T) ==
  IF T.size = 2 THEN <<HexBits(<<13,2,10,9,8,11,2,6,6,2,5,14,14,14,7,11>>),
                       HexBits(<<13,13,13,15,9,11,1,0,9,0,10,10,7,10,12,1>>)>>
  ELSE IF T.int_bits = 32 THEN <<HexBits(<<11,5,2,3,9,5,2,14>>), HexBits(<<0,11,6,15,0,9,9,15>>),
                                 HexBits(<<12,12,15,5,10,0,14,15>>), HexBits(<<1,12,5,8,0,6,6,2>>)>>
  ELSE <<HexBits(<<7,6,14,1,5,13,3,14,15,14,15,13,12,11,11,15>>), HexBits(<<12,5,0,0,4,14,4,4,1,12,5,2,2,15,11,3>>),
         HexBits(<<7,7,7,1,0,0,6,9,8,5,4,14,14,2,4,1>>), HexBits(<<3,9,1,0,9,11,11,0,2,10,12,11,14,6,3,5>>)>>

ZeroState(T) == AsSeq([j \in 1..T.size |-> Zero(T.int_bits)])

\* the inner loop of jump over the bits of one constant: sa is the pair of
\* the state reached and of the accumulated state
RECURSIVE jump_bits(_, _, _, _)
jump_bits(T, word, sa, b) ==
  IF b > T.int_bits \/ Len(sa[1]) = 0 \/ Len(sa[2]) = 0 THEN sa
  ELSE LET acc == IF word[b] = 1 THEN AsSeq([j \in 1..T.size |-> Xor(sa[2][j], sa[1][j])]) ELSE sa[2]
       IN jump_bits(T, word, <<next_state(T, sa[1]), acc>>, b + 1)

\* the outer loop of jump over the constants
RECURSIVE jump_words(_, _, _, _)
jump_words(T, coef, sa, i) ==
  IF i > T.size \/ Len(sa[1]) = 0 THEN sa
  ELSE jump_words(T, coef, jump_bits(T, coef[i], sa, 1), i + 1)

jump_fold(T, coef, s) == jump_words(T, coef, <<s, ZeroState(T)>>, 1)[2]

jump(T, rng_state) == [rng_state EXCEPT !.state = jump_fold(T, jump_constants(T), @)]

long_jump(T, rng_state) == [rng_state EXCEPT !.state = jump_fold(T, long_jump_constants(T), @)]

\* next(state) as (value, state afterwards)
next(T, rng_state) ==
  [value |-> next_value(T, rng_state.state), rng |-> [rng_state EXCEPT !.state = next_state(T, @)]]

----------------------------------------------------------------------------
(* r/random.hpp: seeds, serialised state and the prng object.  A raw       *)
(* vector is a sequence of bytes; memcpy lays an integer out least         *)
(* significant byte first.                                                 *)

\* the integer at a run of sizeof(int_type) bytes
RECURSIVE BytesToInt(_)
BytesToInt(bytes) == IF bytes = <<>> THEN <<>> ELSE ToBits(bytes[1], 8) \o BytesToInt(Tail(bytes))

\* the bytes of an integer
IntToBytes(x) == AsSeq([j \in 1..(Len(x) \div 8) |-> BitsVal(SubSeq(x, 8 * j - 7, 8 * j))])

RECURSIVE Flatten(_)
Flatten(ss) == IF ss = <<>> THEN <<>> ELSE ss[1] \o Flatten(Tail(ss))

\* raw_seed without the test for an empty vector
raw_seed_no_empty_test(T, raw_bytes) ==
  LET len == SizeofInt(T) * T.size
  IN IF Len(raw_bytes) % len # 0
     THEN [ok |-> FALSE, seed |-> <<>>]
     ELSE [ok |-> TRUE,
           seed |-> AsSeq([i \in 1..(Len(raw_bytes) \div SizeofInt(T)) |->
                      BytesToInt(SubSeq(raw_bytes, (i - 1) * SizeofInt(T) + 1, i * SizeofInt(T)))])]

\* raw_seed<T>(seed_data), the raw vector being raw_bytes: ok is FALSE when it stops with an error
raw_seed(T, raw_bytes) ==
  LET len == SizeofInt(T) * T.size
  IN IF Len(raw_bytes) = 0 \/ Len(raw_bytes) % len # 0
     THEN [ok |-> FALSE, seed |-> <<>>]
     ELSE [ok |-> TRUE,
           seed |-> AsSeq([i \in 1..(Len(raw_bytes) \div SizeofInt(T)) |->
                      BytesToInt(SubSeq(raw_bytes, (i - 1) * SizeofInt(T) + 1, i * SizeofInt(T)))])]

\* as_rng_seed<T>(r_seed): the seeds it can return; entropy lists the values
\* R's generator can supply for a NULL seed
as_rng_seed(T, r_seed, entropy) ==
  IF r_seed.sxp \in {"INTSXP", "REALSXP"} THEN {[ok |-> TRUE, seed |-> seed_data(T, r_seed.scalar)]}
  ELSE IF r_seed.sxp = "RAWSXP" THEN {raw_seed(T, r_seed.raw)}
  ELSE IF r_seed.sxp = "NILSXP" THEN {[ok |-> TRUE, seed |-> seed_data(T, e)] : e \in entropy}
  ELSE {[ok |-> FALSE, seed |-> <<>>]}

\* prng<T>(n, seed): the first stream takes its state from the seed, and every
\* later stream is the jump of the stream before it
RECURSIVE prng_streams(_, _, _, _, _)
prng_streams(T, n, seed, i, prev) ==
  IF i > n THEN <<>>
  ELSE LET s == IF i = 1
                THEN [state |-> SubSeq(seed, 1, T.size), deterministic |-> FALSE]
                ELSE jump(T, prev)
       IN <<s>> \o prng_streams(T, n, seed, i + 1, s)

prng_new(T, n, seed) ==
  prng_streams(T, n, seed, 1, [state |-> ZeroState(T), deterministic |-> FALSE])

\* prng::long_jump(), k times
RECURSIVE prng_long_jump(_, _, _)
prng_long_jump(T, streams, k) ==
  IF k <= 0 \/ Len(streams) = 0 THEN streams
  ELSE prng_long_jump(T, AsSeq([i \in 1..Len(streams) |-> long_jump(T, streams[i])]), k - 1)

\* prng::export_state(): the integers of every stream, in stream order
export_state(streams) == Flatten([i \in 1..Len(streams) |-> streams[i].state])

\* rng_state_vector(rng)
rng_state_vector(streams) ==
  LET state == export_state(streams)
  IN Flatten([i \in 1..Len(state) |-> IntToBytes(state[i])])

\* an external pointer: null, or the address of a prng<T>
NoType == StateType(0, 0, "none")
NullPtr == [null |-> TRUE, T |-> NoType, streams |-> <<>>]
Ptr(T, streams) == [null |-> FALSE, T |-> T, streams |-> streams]

\* rng_pointer_init<T>(n_streams, r_seed, long_jump): the lists it can return
rng_pointer_init(T, n_streams, r_seed, n_long_jump, entropy) ==
  {IF ~sd.ok THEN [ok |-> FALSE, r_ptr |-> NullPtr, r_state |-> <<>>]
   ELSE LET streams == prng_long_jump(T, prng_new(T, n_streams, sd.seed), n_long_jump)
        IN [ok |-> TRUE, r_ptr |-> Ptr(T, streams), r_state |-> rng_state_vector(streams)]
   : sd \in as_rng_seed(T, r_seed, entropy)}

\* the result of rng_pointer_get: the environment afterwards, whether a
\* generator was returned and whether one was built from state_
GetResult(status, e, rebuilt) == [status |-> status, env |-> e, rebuilt |-> rebuilt]

\* the number of streams of the generator rebuilt from a seed
n_streams_orig(T, seed) == Len(seed) \div T.size

\* the branch of a null pointer without the test of is_current_
get_rebuild_unsynced(T, e) ==
  LET sd == raw_seed(T, e.state_)
  IN IF ~sd.ok THEN GetResult("error", e, FALSE)
     ELSE GetResult("ok", [e EXCEPT !.ptr_ = Ptr(T, prng_new(T, n_streams_orig(T, sd.seed), sd.seed))], TRUE)

\* rng_pointer_get, the branch of a null pointer: the generator is rebuilt
\* from state_
get_rebuild(T, e) ==
  IF ~e.is_current_ THEN GetResult("error", e, FALSE)
  ELSE LET sd == raw_seed(T, e.state_)
       IN IF ~sd.ok THEN GetResult("error", e, FALSE)
          ELSE GetResult("ok", [e EXCEPT !.ptr_ = Ptr(T, prng_new(T, n_streams_orig(T, sd.seed), sd.seed))], TRUE)

\* the end of rng_pointer_get without the write to is_current_
get_finish_keeps_current(e, n_streams, rebuilt) ==
  IF n_streams > 0 /\ Len(e.ptr_.streams) < n_streams
  THEN GetResult("error", e, rebuilt)
  ELSE GetResult("ok", e, rebuilt)

\* rng_pointer_get, from the check of the number of streams to the return
get_finish(e, n_streams, rebuilt) ==
  IF n_streams > 0 /\ Len(e.ptr_.streams) < n_streams
  THEN GetResult("error", e, rebuilt)
  ELSE GetResult("ok", [e EXCEPT !.is_current_ = FALSE], rebuilt)

\* rng_pointer_get, after the check of the algorithm
get_checked(T, e, n_streams) ==
  LET r == IF e.ptr_.null THEN get_rebuild(T, e) ELSE GetResult("ok", e, FALSE)
  IN IF r.status = "error" THEN r ELSE get_finish(r.env, n_streams, r.rebuilt)

\* rng_pointer_get without the check of the algorithm
rng_pointer_get_unchecked(T, e, n_streams) == get_checked(T, e, n_streams)

\* rng_pointer_get<T>(obj, n_streams) on the environment e of the object
rng_pointer_get(T, e, n_streams) ==
  IF e.algorithm # algorithm_name(T) THEN GetResult("error", e, FALSE)
  ELSE get_checked(T, e, n_streams)

\* rng_pointer_sync<T>(obj): the environments it can leave.  With a null
\* ptr_ and a cache that is not current it calls export_state through a null
\* pointer: the call crashes, or reads some bytes; garbage lists the byte
\* vectors followed
rng_pointer_sync(e, garbage) ==
  IF e.is_current_ THEN {[status |-> "ok", env |-> e]}
  ELSE IF e.ptr_.null
       THEN {[status |-> "crash", env |-> e]}
            \cup {[status |-> "ok", env |-> [e EXCEPT !.state_ = g, !.is_current_ = TRUE]] : g \in garbage}
       ELSE {[status |-> "ok",
              env |-> [e EXCEPT !.state_ = rng_state_vector(e.ptr_.streams), !.is_current_ = TRUE]]}

----------------------------------------------------------------------------
(* Real arguments and results of the samplers.  The arguments checked are  *)
(* dyadic rationals n / d (d a power of two) with a sign, the two          *)
(* infinities and NaN; on these the arithmetic below is exact in both      *)
(* float and double, so it is the arithmetic of the program.               *)

Fin(neg, n, d) == [k |-> "fin", neg |-> neg, n |-> n, d |-> d]
Inf(neg) == [k |-> "inf", neg |-> neg, n |-> 0, d |-> 1]
NaN == [k |-> "nan", neg |-> FALSE, n |-> 0, d |-> 1]
RealZero == Fin(FALSE, 0, 1)

\* x < 0.0
LtZero(x) == \/ x.k = "inf" /\ x.neg
             \/ x.k = "fin" /\ x.neg /\ x.n > 0

\* x == 0
EqZero(x) == x.k = "fin" /\ x.n = 0

\* x < 1
LtOne(x) == \/ x.k = "inf" /\ x.neg
            \/ x.k = "fin" /\ (x.neg \/ x.n < x.d)

\* x == 1
EqOne(x) == x.k = "fin" /\ ~x.neg /\ x.n = x.d

RECURSIVE Reduce(_, _)
Reduce(n, d) == IF n = 0 THEN <<0, 1>>
                ELSE IF n % 2 = 0 /\ d % 2 = 0 THEN Reduce(n \div 2, d \div 2)
                ELSE <<n, d>>

\* x * y
RealMul(x, y) ==
  IF x.k = "nan" \/ y.k = "nan" THEN NaN
  ELSE IF (x.k = "inf" /\ EqZero(y)) \/ (y.k = "inf" /\ EqZero(x)) THEN NaN
  ELSE IF x.k = "inf" \/ y.k = "inf" THEN Inf(x.neg # y.neg)
  ELSE LET r == Reduce(x.n * y.n, x.d * y.d) IN Fin(x.neg # y.neg, r[1], r[2])

\* 1 / x, for x a power of two, a zero, an infinity or NaN
RealInv(x) ==
  IF x.k = "nan" THEN NaN
  ELSE IF x.k = "inf" THEN Fin(x.neg, 0, 1)
  ELSE IF x.n = 0 THEN Inf(x.neg)
  ELSE LET r == Reduce(x.d, x.n) IN Fin(x.neg, r[1], r[2])

----------------------------------------------------------------------------
(* The generator state the samplers draw from.  rng_state_type is a        *)
(* template parameter of every sampler; the samplers are checked over a    *)
(* 64-bit generator whose state lists the raw integers it emits next and   *)
(* counts the integers emitted, with the deterministic flag of             *)
(* xoshiro_state.                                                          *)

\* the raw integer emitted once the listed ones are used up
FallbackWord == FromLimbs(<<0, 0, 0, 32768>>)

\* next(state) as (value, state afterwards)
next_draw(rng_state) ==
  IF rng_state.state = <<>>
  THEN [value |-> FallbackWord, rng |-> [rng_state EXCEPT !.drawn = @ + 1]]
  ELSE [value |-> Head(rng_state.state),
        rng |-> [rng_state EXCEPT !.state = Tail(@), !.drawn = @ + 1]]

\* random_real<real_type>(rng_state)
random_real(real_type, rng_state) ==
  LET n == next_draw(rng_state)
  IN [value |-> int_to_real(real_type, n.value), rng |-> n.rng]

\* utils::epsilon<real_type>() is 2^-EpsilonBits(real_type)
EpsilonBits(real_type) == IF real_type = "double" THEN 52 ELSE 23

\* monty::utils::fatal_error: an exception on the host, a trap on the device
fatal_error(backend) == IF backend = "device" THEN "trap" ELSE "error"

----------------------------------------------------------------------------
(* Outcomes of a sampler call.  On the device build a call stops at        *)
(* SYNCWARP (__syncwarp()) until the other threads of the warp arrive; the *)
(* outcome then has the status "syncwarp" and names what the call has left *)
(* to do.                                                                  *)

\* what a call has left to do after the barrier: the function that resumes,
\* its real type and the iterations of its loop that are followed
Resume(fn, real_type, tries) == [fn |-> fn, real_type |-> real_type, tries |-> tries]

NoResume == Resume("none", "none", 0)

Outcome(status, value, rng_state) ==
  [status |-> status, value |-> value, rng |-> rng_state, resume |-> NoResume]

\* a real the model does not compute, named by the function that returns it
Sampled(by) == [k |-> by, neg |-> FALSE, n |-> 0, d |-> 1]

\* SYNCWARP: empty on the host, __syncwarp() on the device
SYNCWARP(backend) == IF backend = "device" THEN "syncwarp" ELSE "ok"

----------------------------------------------------------------------------
(* normal_box_muller.hpp                                                   *)

\* a loop that draws u1 again alone and u2 once, after u1 is accepted
RECURSIVE box_muller_loop_u1_only(_, _, _)
box_muller_loop_u1_only(real_type, rng_state, rejected) ==
  LET u1 == random_real(real_type, rng_state)
  IN IF RealLePow2Inv(u1.value, EpsilonBits(real_type))
     THEN box_muller_loop_u1_only(real_type, u1.rng, rejected + 1)
     ELSE LET u2 == random_real(real_type, u1.rng)
          IN [u1 |-> u1.value, u2 |-> u2.value, rng |-> u2.rng, rejected |-> rejected]

\* the do-while loop: rejected counts the values of u1 thrown away
RECURSIVE box_muller_loop(_, _, _)
box_muller_loop(real_type, rng_state, rejected) ==
  LET u1 == random_real(real_type, rng_state)
      u2 == random_real(real_type, u1.rng)
  IN IF RealLePow2Inv(u1.value, EpsilonBits(real_type))
     THEN box_muller_loop(real_type, u2.rng, rejected + 1)
     ELSE [u1 |-> u1.value, u2 |-> u2.value, rng |-> u2.rng, rejected |-> rejected]

\* random_normal_box_muller from SYNCWARP on, l being what the loop left: on
\* the host the call returns, on the device it waits with u1 and u2 drawn.
\* The value returned is sqrt(-2 log u1) cos(2 pi u2), kept as the pair it is
\* computed from
box_muller_syncwarp(backend, real_type, l) ==
  [status |-> SYNCWARP(backend),
   value |-> [k |-> "normal", neg |-> FALSE, n |-> 0, d |-> 1, u1 |-> l.u1, u2 |-> l.u2],
   rng |-> l.rng, rejected |-> l.rejected,
   resume |-> IF backend = "device" THEN Resume("box_muller", real_type, 0) ELSE NoResume]

\* random_normal_box_muller<real_type>(rng_state) as far as SYNCWARP
random_normal_box_muller(backend, real_type, rng_state) ==
  box_muller_syncwarp(backend, real_type, box_muller_loop(real_type, rng_state, 0))

\* normal<real_type>(rng_state, 0, 1) on a state that is not deterministic:
\* the Box-Muller sampler
normal(backend, real_type, rng_state) == random_normal_box_muller(backend, real_type, rng_state)

----------------------------------------------------------------------------
(* gamma.hpp                                                               *)

\* most iterations of the loop of gamma_large one call is followed through
MaxGammaTries == 2

RECURSIVE Advance(_, _)
Advance(rng_state, n) == IF n = 0 THEN rng_state ELSE Advance(next_draw(rng_state).rng, n - 1)

\* gamma_validate without the test of the scale
gamma_validate_shape_only(shape, scale) == ~LtZero(shape)

\* TRUE when gamma_validate returns, FALSE when it calls fatal_error
gamma_validate(shape, scale) == ~(LtZero(shape) \/ LtZero(scale))

\* gamma_large(rng_state, shape) from a place pc in its loop, followed for
\* tries iterations; by is the function whose value is returned, gamma_small
\* or gamma_large.  The reals compared depend on sqrt, log and cos and are
\* not computed: each test is followed both ways.
\*   "normal"   line 39: x is drawn; on the device normal stops at SYNCWARP
\*   "syncwarp" the call waits inside normal
\*   "v_cbrt"   line 41: the loop starts again, or u is drawn (line 45)
\*   "accept"   line 47: the value is returned, or the loop starts again
RECURSIVE gamma_large(_, _, _, _, _, _)
gamma_large(backend, real_type, rng_state, by, tries, pc) ==
  IF tries <= 0 THEN {}
  ELSE IF pc = "normal"
  THEN gamma_large(backend, real_type, normal(backend, real_type, rng_state).rng, by, tries,
                   IF SYNCWARP(backend) = "syncwarp" THEN "syncwarp" ELSE "v_cbrt")
  ELSE IF pc = "syncwarp"
  THEN {[Outcome("syncwarp", NaN, rng_state) EXCEPT !.resume = Resume(by, real_type, tries)]}
  ELSE IF pc = "v_cbrt"
  THEN gamma_large(backend, real_type, rng_state, by, tries - 1, "normal")
         \cup gamma_large(backend, real_type, random_real(real_type, rng_state).rng, by, tries, "accept")
  ELSE {Outcome("ok", Sampled(by), rng_state)}
         \cup gamma_large(backend, real_type, rng_state, by, tries - 1, "normal")

\* gamma_small<real_type>(rng_state, shape): u is drawn as a real_type, then
\* gamma_large(rng_state, shape + 1.0) is called with its real type deduced
\* from shape + 1.0, a double whatever real_type is
gamma_small(backend, real_type, rng_state) ==
  gamma_large(backend, "double", random_real(real_type, rng_state).rng, "gamma_small", MaxGammaTries, "normal")

gamma_deterministic(shape, scale) == RealMul(shape, scale)

\* exponential_mean(rng_state, scale) on a state that is not deterministic:
\* one uniform draw
exponential_mean(real_type, rng_state, scale) ==
  Outcome("ok", Sampled("exponential_mean"), random_real(real_type, rng_state).rng)

\* gamma_scale from the test shape < 1 to the end
gamma_sample(backend, real_type, rng_state, shape, scale) ==
  IF LtOne(shape) THEN gamma_small(backend, real_type, rng_state)
  ELSE IF EqOne(shape) THEN {exponential_mean(real_type, rng_state, scale)}
  ELSE gamma_large(backend, real_type, rng_state, "gamma_large", MaxGammaTries, "normal")

\* gamma_scale with the test of the deterministic flag ahead of the test for
\* a zero parameter
gamma_scale_flag_first(backend, real_type, rng_state, shape, scale) ==
  IF ~gamma_validate(shape, scale) THEN {Outcome(fatal_error(backend), NaN, rng_state)}
  ELSE IF rng_state.deterministic THEN {Outcome("ok", gamma_deterministic(shape, scale), rng_state)}
  ELSE IF EqZero(shape) \/ EqZero(scale) THEN {Outcome("ok", RealZero, rng_state)}
  ELSE gamma_sample(backend, real_type, rng_state, shape, scale)

\* the outcomes of gamma_scale<real_type>(rng_state, shape, scale)
gamma_scale(backend, real_type, rng_state, shape, scale) ==
  IF ~gamma_validate(shape, scale) THEN {Outcome(fatal_error(backend), NaN, rng_state)}
  ELSE IF EqZero(shape) \/ EqZero(scale) THEN {Outcome("ok", RealZero, rng_state)}
  ELSE IF rng_state.deterministic THEN {Outcome("ok", gamma_deterministic(shape, scale), rng_state)}
  ELSE gamma_sample(backend, real_type, rng_state, shape, scale)

\* the outcomes of gamma_rate<real_type>(rng_state, shape, rate)
gamma_rate(backend, real_type, rng_state, shape, rate) ==
  LET scale == RealInv(rate)
  IN IF ~gamma_validate(shape, scale) THEN {Outcome(fatal_error(backend), NaN, rng_state)}
     ELSE gamma_scale(backend, real_type, rng_state, shape, scale)

\* a call released from SYNCWARP: random_normal_box_muller returns; inside
\* gamma_large the iteration that drew the normal goes on
after_syncwarp(backend, out) ==
  IF out.resume.fn = "box_muller" THEN {[out EXCEPT !.status = "ok", !.resume = NoResume]}
  ELSE gamma_large(backend, out.resume.real_type, out.rng, out.resume.fn, out.resume.tries, "v_cbrt")

----------------------------------------------------------------------------
(* cauchy.hpp                                                              *)

\* the outcome of cauchy<real_type>(rng_state, location, scale); the check
\* of the deterministic flag is compiled for the host only
cauchy(backend, real_type, rng_state, location, scale) ==
  IF backend # "device" /\ rng_state.deterministic
  THEN Outcome("error", NaN, rng_state)
  ELSE LET u == random_real(real_type, rng_state)
       IN Outcome("ok", [k |-> "cauchy", neg |-> FALSE, n |-> 0, d |-> 1, u |-> u.value], u.rng)

----------------------------------------------------------------------------
\* longest list of raw integers a generator state is started with
MaxTape == 3

\* most other threads of the warp still to arrive when a call reaches SYNCWARP
MaxWarpOthers == 1

\* raw integers: one that converts to a real at most epsilon in both real
\* types, one that converts to a double above epsilon and to a float at most
\* epsilon, and the largest
RawWords == {FromLimbs(<<2048, 0, 0, 0>>), FromLimbs(<<4096, 0, 0, 0>>),
             FromLimbs(<<65535, 65535, 65535, 65535>>)}

RECURSIVE Tapes(_)
Tapes(n) == IF n = 0 THEN {<<>>} ELSE Tapes(n - 1) \cup {<<w>> \o t : w \in RawWords, t \in {u \in Tapes(n - 1) : Len(u) = n - 1}}

Shapes == {Fin(TRUE, 1, 1), Fin(TRUE, 0, 1), RealZero, Fin(FALSE, 1, 2), Fin(FALSE, 1, 1),
           Fin(FALSE, 3, 1), Inf(FALSE), Inf(TRUE), NaN}
Scales == {Fin(TRUE, 2, 1), Fin(TRUE, 0, 1), RealZero, Fin(FALSE, 1, 2), Fin(FALSE, 2, 1), Inf(FALSE), NaN}
Rates == {Fin(TRUE, 2, 1), Fin(TRUE, 0, 1), RealZero, Fin(FALSE, 1, 2), Fin(FALSE, 2, 1), Inf(FALSE), Inf(TRUE)}
RealTypes == {"double", "float"}

NoCall == [op |-> "none"]

InitSampler ==
  /\ target \in {"host", "device"}
  /\ rng \in [state : Tapes(MaxTape), drawn : {0}, deterministic : BOOLEAN]
  /\ call = NoCall
  /\ warp = 0
  /\ IdleReal /\ IdleSeed /\ IdlePtr

\* a sampler is called once on the state drawn by InitSampler; a failed
\* call leaves the state as the sampler left it before failing, a call that
\* reaches SYNCWARP waits there for the other threads of the warp
Called(op, args, out) ==
  /\ call' = [op |-> op, args |-> args, before |-> rng, status |-> out.status, value |-> out.value,
              rejected |-> IF op = "box_muller" THEN out.rejected ELSE 0, resume |-> out.resume]
  /\ rng' = out.rng
  /\ warp' \in IF out.status = "syncwarp" THEN 0..MaxWarpOthers ELSE {0}
  /\ UNCHANGED <<target, varsReal, varsSeed, varsPtr>>

GammaScale ==
  /\ call = NoCall
  /\ \E real_type \in RealTypes, shape \in Shapes, scale \in Scales :
       \E out \in gamma_scale(target, real_type, rng, shape, scale) :
         Called("gamma_scale", [real_type |-> real_type, shape |-> shape, scale |-> scale], out)

GammaRate ==
  /\ call = NoCall
  /\ \E real_type \in RealTypes, shape \in Shapes, rate \in Rates :
       \E out \in gamma_rate(target, real_type, rng, shape, rate) :
         Called("gamma_rate", [real_type |-> real_type, shape |-> shape, rate |-> rate], out)

Cauchy ==
  /\ call = NoCall
  /\ \E real_type \in RealTypes, location \in {RealZero, Fin(FALSE, 3, 1)}, scale \in {Fin(FALSE, 1, 1), Fin(FALSE, 1, 2)} :
       Called("cauchy", [real_type |-> real_type, location |-> location, scale |-> scale], cauchy(target, real_type, rng, location, scale))

BoxMuller ==
  /\ call = NoCall
  /\ \E real_type \in RealTypes :
       Called("box_muller", [real_type |-> real_type], random_normal_box_muller(target, real_type, rng))

\* another thread of the warp arrives at the barrier the call waits at
WarpArrive ==
  /\ call # NoCall /\ call.status = "syncwarp" /\ warp > 0
  /\ warp' = warp - 1
  /\ UNCHANGED <<target, rng, call, varsReal, varsSeed, varsPtr>>

\* every thread of the warp has arrived: __syncwarp() returns and the call
\* goes on, to its return or to the next barrier
SyncWarp ==
  /\ call # NoCall /\ call.status = "syncwarp" /\ warp = 0
  /\ \E out \in after_syncwarp(target, [status |-> call.status, value |-> call.value, rng |-> rng,
                                         resume |-> call.resume]) :
       /\ call' = [call EXCEPT !.status = out.status, !.value = out.value, !.resume = out.resume]
       /\ rng' = out.rng
       /\ warp' \in IF out.status = "syncwarp" THEN 0..MaxWarpOthers ELSE {0}
  /\ UNCHANGED <<target, varsReal, varsSeed, varsPtr>>

NextSampler == GammaScale \/ GammaRate \/ Cauchy \/ BoxMuller \/ WarpArrive \/ SyncWarp

SpecSampler == InitSampler /\ [][NextSampler]_vars

Failed == call.op # "none" /\ call.status \in {"error", "trap"}
Consumed == rng.drawn - call.before.drawn

\* the i-th raw integer a generator state emits
DrawAt(rng_state, i) == next_draw(Advance(rng_state, i - 1)).value

GammaCall == call.op \in {"gamma_scale", "gamma_rate"}
GammaScaleArg == IF call.op = "gamma_rate" THEN RealInv(call.args.rate) ELSE call.args.scale

\* C6: cauchy on a generator state whose deterministic flag is set fails, on
\* the host and on the device, and leaves the generator state unchanged.
C6_CauchyDeterministicFails ==
  (call.op = "cauchy" /\ call.before.deterministic) => (Failed /\ rng = call.before)

\* C7: gamma_scale and gamma_rate fail before any draw whenever the shape or
\* the scale (1 / rate for gamma_rate) is negative, whatever the deterministic
\* flag and the other parameter; the generator state is unchanged.
C7_GammaValidatesFirst ==
  (GammaCall /\ (LtZero(call.args.shape) \/ LtZero(GammaScaleArg))) => (Failed /\ rng = call.before)

\* a gamma_rate call rejected for its rate alone, the shape being zero and the
\* deterministic flag set
C7_Witness ==
  /\ call.op = "gamma_rate" /\ Failed /\ rng = call.before
  /\ EqZero(call.args.shape) /\ LtZero(RealInv(call.args.rate)) /\ call.before.deterministic

\* C8: for every shape and scale gamma_validate accepts (shape >= 0 and
\* scale >= 0, and NaN, which is not < 0), gamma_scale on a deterministic
\* state returns shape * scale, 0 when either is 0, and draws nothing.
C8_GammaDeterministic ==
  (call.op = "gamma_scale" /\ call.before.deterministic /\ gamma_validate(call.args.shape, call.args.scale))
    => /\ call.status = "ok"
       /\ call.value = IF EqZero(call.args.shape) \/ EqZero(call.args.scale) THEN RealZero
                       ELSE RealMul(call.args.shape, call.args.scale)
       /\ rng = call.before

\* gamma(shape = 3, scale = 2) on a deterministic state with draws pending
\* returned 6 and drew nothing
C8_Witness ==
  /\ call.op = "gamma_scale" /\ call.before.deterministic /\ call.before.state # <<>>
  /\ call.args.shape = Fin(FALSE, 3, 1) /\ call.args.scale = Fin(FALSE, 2, 1)
  /\ call.status = "ok" /\ call.value = Fin(FALSE, 6, 1) /\ Consumed = 0

\* C10 as stated: a call that rejects k values of u1 draws k + 2 times, and
\* returns a value computed from a u1 above epsilon, never a failure (on the
\* device the call has drawn all it draws when it waits at SYNCWARP).
C10_DrawsKPlusTwo ==
  call.op = "box_muller"
    => /\ call.status \in {"ok", "syncwarp"}
       /\ Consumed = call.rejected + 2
       /\ ~RealLePow2Inv(call.value.u1, EpsilonBits(call.args.real_type))

\* C10 amended: u1 and u2 are drawn together; a call that rejects k values of
\* u1 draws 2 (k + 1) times, the rejected u1 being draws 1, 3, .., 2k - 1; the
\* value is computed from draws 2k + 1 (u1, above epsilon) and 2k + 2 (u2),
\* and the call does not fail; on the device it has drawn all it draws when
\* it waits at SYNCWARP, and returns once released.
C10_DrawsInPairs ==
  call.op = "box_muller"
    => LET k == call.rejected
           rt == call.args.real_type
       IN /\ call.status \in {"ok", "syncwarp"}
          /\ call.status = "syncwarp" <=> (target = "device" /\ call.resume.fn = "box_muller")
          /\ Consumed = 2 * (k + 1)
          /\ \A j \in 1..k : RealLePow2Inv(int_to_real(rt, DrawAt(call.before, 2 * j - 1)), EpsilonBits(rt))
          /\ call.value.u1 = int_to_real(rt, DrawAt(call.before, 2 * k + 1))
          /\ call.value.u2 = int_to_real(rt, DrawAt(call.before, 2 * k + 2))
          /\ ~RealLePow2Inv(call.value.u1, EpsilonBits(rt))

\* a call that rejected a u1 and went on to return
C10_Witness == call.op = "box_muller" /\ call.rejected >= 1 /\ call.status = "ok"

----------------------------------------------------------------------------
(* raw_seed on its own.                                                    *)

\* the state types the rng pointer is checked with
Types == {xoshiro128plus, xoroshiro128plus, xoshiro256plus}

\* longest raw vector given to raw_seed
MaxRawLen == 40

\* a raw vector of n bytes
RawPattern(n, k) == AsSeq([j \in 1..n |-> (37 * j + k) % 256])

InitSeed ==
  /\ seed_type \in Types
  /\ seed_raw \in {RawPattern(n, k) : n \in 0..MaxRawLen, k \in {1, 255}}
  /\ seed_out = [op |-> "none"]
  /\ IdleReal /\ IdleSampler /\ IdlePtr

RawSeed ==
  /\ seed_out.op = "none"
  /\ seed_out' = [op |-> "raw_seed", out |-> raw_seed(seed_type, seed_raw)]
  /\ UNCHANGED <<seed_type, seed_raw, varsReal, varsSampler, varsPtr>>

NextSeed == RawSeed

SpecSeed == InitSeed /\ [][NextSeed]_vars

----------------------------------------------------------------------------
(* The rng pointer object.                                                 *)

\* the state types rng pointer objects are made and asked for with: integers
\* of 32 and of 64 bits, states of 4 and of 2 integers
PointerTypes == {xoshiro128plus, xoroshiro128plus}

\* most streams asked of rng_pointer_init
MaxStreams == 2
\* most long jumps asked of rng_pointer_init
MaxLongJump == 1
\* most draws made on the generators of one object
MaxDraws == 1

\* the seeds given to rng_pointer_init<T>
Seeds(T) ==
  {[sxp |-> "INTSXP", scalar |-> ToBits(42, 64), raw |-> <<>>],
   [sxp |-> "NILSXP", scalar |-> Zero(64), raw |-> <<>>],
   [sxp |-> "STRSXP", scalar |-> Zero(64), raw |-> <<>>]}
  \cup {[sxp |-> "RAWSXP", scalar |-> Zero(64), raw |-> RawPattern(n, 1)] :
          n \in {0, SizeofInt(T) * T.size - 1, SizeofInt(T) * T.size, 2 * SizeofInt(T) * T.size}}

\* the values R's generator supplies for a NULL seed
Entropy == {ToBits(1, 64)}

\* the bytes a read through a null pointer is followed with
Garbage == {<<>>, RawPattern(16, 3)}

NoEnv == [algorithm |-> "", ptr_ |-> NullPtr, state_ |-> <<>>, is_current_ |-> FALSE]

Last(op, T, n_streams, status, rebuilt, before) ==
  [op |-> op, T |-> T, n_streams |-> n_streams, status |-> status, rebuilt |-> rebuilt, before |-> before]

InitPtr ==
  /\ created = FALSE
  /\ env = NoEnv
  /\ held = "no"
  /\ drawn = <<>>
  /\ kept_draws = 0
  /\ restored = FALSE
  /\ last = Last("none", NoType, 0, "ok", FALSE, NoEnv)
  /\ IdleReal /\ IdleSampler /\ IdleSeed

Draws == IF drawn = <<>> THEN 0 ELSE LET sum[i \in 0..Len(drawn)] == IF i = 0 THEN 0 ELSE sum[i - 1] + drawn[i] IN sum[Len(drawn)]

\* monty_rng_pointer$new(): rng_pointer_init, and the object keeps the
\* pointer and the state and starts current
PointerInit ==
  /\ ~created /\ last.op = "none"
  /\ \E T \in PointerTypes, n_streams \in 0..MaxStreams, n_long_jump \in 0..MaxLongJump :
       \E r_seed \in Seeds(T) :
         \E r \in rng_pointer_init(T, n_streams, r_seed, n_long_jump, Entropy) :
           IF r.ok
           THEN /\ created' = TRUE
                /\ env' = [algorithm |-> algorithm_name(T), ptr_ |-> r.r_ptr, state_ |-> r.r_state,
                           is_current_ |-> TRUE]
                /\ drawn' = [i \in 1..MaxStreams |-> 0]
                /\ last' = Last("init", T, n_streams, "ok", FALSE, NoEnv)
                /\ UNCHANGED <<held, kept_draws, restored>>
           ELSE /\ last' = Last("init", T, n_streams, "error", FALSE, NoEnv)
                /\ UNCHANGED <<created, env, held, drawn, kept_draws, restored>>
  /\ UNCHANGED <<varsReal, varsSampler, varsSeed>>

\* a call of rng_pointer_get<T>(obj, n_streams); a call that fails returns
\* nothing, and a pointer returned earlier stays with its caller
PointerGet ==
  /\ created
  /\ \E T \in PointerTypes, n_streams \in {0, MaxStreams} :
       LET r == rng_pointer_get(T, env, n_streams)
       IN /\ env' = r.env
          /\ held' = IF r.status = "ok" THEN "fresh" ELSE held
          /\ restored' = (r.rebuilt \/ restored)
          /\ last' = Last("get", T, n_streams, r.status, r.rebuilt, env)
  /\ UNCHANGED <<created, drawn, kept_draws, varsReal, varsSampler, varsSeed>>

\* a caller of rng_pointer_get draws from stream i of the generator it was
\* given, which is the one ptr_ points to
Draw ==
  /\ created /\ held # "no" /\ Draws < MaxDraws
  /\ \E i \in 1..Len(env.ptr_.streams) :
       /\ env' = [env EXCEPT !.ptr_.streams[i] = next(env.ptr_.T, @).rng]
       /\ drawn' = [drawn EXCEPT ![i] = @ + 1]
       /\ last' = Last("draw", env.ptr_.T, i, "ok", FALSE, env)
  /\ kept_draws' = IF held = "kept" THEN kept_draws + 1 ELSE kept_draws
  /\ UNCHANGED <<created, held, restored, varsReal, varsSampler, varsSeed>>

\* a call of rng_pointer_sync on the object, with the type it was made with;
\* a crash ends the session and the object with it.  The call writes state_
\* and is_current_ only: a pointer returned by rng_pointer_get before it stays
\* usable
PointerSync ==
  /\ created
  /\ \E r \in rng_pointer_sync(env, Garbage) :
       /\ env' = r.env
       /\ created' = (r.status # "crash")
       /\ restored' = (restored /\ env.is_current_)
       /\ last' = Last("sync", env.ptr_.T, 0, r.status, FALSE, env)
  /\ held' = IF held = "no" THEN "no" ELSE "kept"
  /\ UNCHANGED <<drawn, kept_draws, varsReal, varsSampler, varsSeed>>

\* the object is serialised and read back: the external pointer comes back
\* null, the rest of the environment as it was
Serialise ==
  /\ created /\ ~env.ptr_.null
  /\ env' = [env EXCEPT !.ptr_ = NullPtr]
  /\ held' = "no"
  /\ last' = Last("serialise", env.ptr_.T, 0, "ok", FALSE, env)
  /\ UNCHANGED <<created, drawn, kept_draws, restored, varsReal, varsSampler, varsSeed>>

Next == PointerInit \/ PointerGet \/ Draw \/ PointerSync \/ Serialise

Spec == InitPtr /\ [][Next]_vars

----------------------------------------------------------------------------
(* Properties of raw_seed and of the rng pointer object.                   *)

\* C3: raw_seed fails exactly when the raw vector is empty or its length is
\* not a multiple of width_bytes * state_size; otherwise it returns
\* length / width_bytes integers, integer i made of bytes (i - 1) w + 1 .. i w
\* in order, and the stream count derived from them is
\* length / (width_bytes * state_size), at least 1.
C3_RawSeedLength ==
  seed_out.op = "raw_seed" =>
    LET w == seed_type.int_bits \div 8
        len == w * seed_type.size
        L == Len(seed_raw)
        out == seed_out.out
    IN /\ ~out.ok <=> (L = 0 \/ L % len # 0)
       /\ out.ok => /\ Len(out.seed) = L \div w
                    /\ \A i \in 1..Len(out.seed) : \A j \in 1..w :
                         BitsVal(SubSeq(out.seed[i], 8 * j - 7, 8 * j)) = seed_raw[(i - 1) * w + j]
                    /\ Len(out.seed) \div seed_type.size = L \div len
                    /\ L \div len >= 1

\* raw_seed returned the integers of two streams
C3_Witness ==
  /\ seed_out.op = "raw_seed" /\ seed_out.out.ok
  /\ Len(seed_out.out.seed) = 2 * seed_type.size

\* the canonical names of the state types checked
CanonicalName(T) ==
  IF T = StateType(32, 4, "plus") THEN "xoshiro128plus"
  ELSE IF T = StateType(64, 2, "plus") THEN "xoroshiro128plus"
  ELSE "xoshiro256plus"

C4_AlgorithmChecked ==
  (created /\ last.op = "get" /\ last.before.algorithm # CanonicalName(last.T))
    => (last.status = "error" /\ ~last.rebuilt /\ env = last.before)

\* a call for another state type on an object with a null pointer and a
\* current cache, which a matching call would have rebuilt
C4_Witness ==
  /\ created /\ last.op = "get" /\ last.before.algorithm # CanonicalName(last.T)
  /\ last.before.ptr_.null /\ last.before.is_current_ /\ last.before.state_ # <<>>
  /\ last.status = "error" /\ env = last.before

\* C5: rng_pointer_get on a null ptr_ with is_current_ false fails and leaves
\* ptr_, state_ and is_current_ as they were; a generator is rebuilt from
\* state_ only when is_current_ was true.
C5_NoRebuildFromStale ==
  (created /\ last.op = "get")
    => /\ (last.before.ptr_.null /\ ~last.before.is_current_)
           => (last.status = "error" /\ held = "no" /\ env = last.before)
       /\ last.rebuilt => (last.before.ptr_.null /\ last.before.is_current_)

\* a call for the right state type on an object serialised while stale
C5_Witness ==
  /\ created /\ last.op = "get" /\ last.before.algorithm = CanonicalName(last.T)
  /\ last.before.ptr_.null /\ ~last.before.is_current_ /\ last.before.state_ # <<>>
  /\ last.status = "error" /\ env = last.before

====
